---------------------------- MODULE Spec2Model ----------------------------
(***************************************************************************)
(* A model of meps.go: the extraction of the field layout from a SAS      *)
(* programming-statements file (getvinf), the classification and          *)
(* accumulation of fixed-width survey records into 33 strata (getpopw),   *)
(* and the loop over the survey years (main).                             *)
(*                                                                         *)
(* Text is a sequence of one-character strings, so that the string        *)
(* functions of the source (Fields, TrimLeft, Contains, Split, Atoi,      *)
(* ParseFloat, slicing) are computed character by character.              *)
(***************************************************************************)
EXTENDS Integers, Sequences, FiniteSets, TLC

VARIABLES
    pc,        \* position of the program
    err,       \* the panic that ended the run, "none" while it runs
    year,      \* main: the loop variable y
    dw,        \* main: year -> stratum vector
    written,   \* main: meps_totals.csv has been created and written
    sampsize,  \* getpopw: the 33 accumulators of the year
    stratum,   \* getpopw: {s} when the loop body computed index s, else {}
    line,      \* getpopw: the record in hand, as its six field slices
    nrec,      \* records consumed so far
    doc,       \* getvinf: the lines of the SAS file
    pos,       \* getvinf: number of lines the scanner has delivered
    vdef,      \* getvinf: name -> <<position, width>>
    partA,     \* a second aggregation, over the first chunk of the stream
    partB,     \* a third aggregation, over the second chunk of the stream
    chunk      \* the chunk (1 or 2) the next record belongs to

vars == <<pc, err, year, dw, written, sampsize, stratum, line, nrec,
          doc, pos, vdef, partA, partB, chunk>>

---------------------------------------------------------------------------
(* Bounds of the model.                                                    *)

\* longest SAS document, in lines
MaxLines == 4
\* longest record stream of the chunked aggregation
MaxRecs == 3
\* most records of a whole run of main
MaxRunRecs == 2
\* significand width of the model's floating point (float64 has 53): the
\* smallest at which every code and birth year of the alphabet is exact
MantBits == 11

---------------------------------------------------------------------------
(* Text.                                                                   *)

Digits == {"0", "1", "2", "3", "4", "5", "6", "7", "8", "9"}

DigitVal(c) ==
    CASE c = "0" -> 0 [] c = "1" -> 1 [] c = "2" -> 2 [] c = "3" -> 3
      [] c = "4" -> 4 [] c = "5" -> 5 [] c = "6" -> 6 [] c = "7" -> 7
      [] c = "8" -> 8 [] c = "9" -> 9

RECURSIVE DigitsVal(_)
DigitsVal(s) ==
    IF s = <<>> THEN 0
    ELSE 10 * DigitsVal(SubSeq(s, 1, Len(s) - 1)) + DigitVal(s[Len(s)])

\* line[from:len(line)] of the source, from 0-based
SliceFrom(s, from) == SubSeq(s, from + 1, Len(s))

\* strings.HasPrefix
HasPrefix(s, p) == Len(s) >= Len(p) /\ SubSeq(s, 1, Len(p)) = p

\* strings.Contains
Contains(s, p) ==
    \E i \in 1..(Len(s) - Len(p) + 1) : SubSeq(s, i, i + Len(p) - 1) = p

\* strings.TrimLeft(s, c) for a cutset of one character
RECURSIVE TrimLeft(_, _)
TrimLeft(s, c) ==
    IF s # <<>> /\ s[1] = c THEN TrimLeft(Tail(s), c) ELSE s

\* strings.Fields: the maximal runs of non-space characters
RECURSIVE FieldsAcc(_, _, _)
FieldsAcc(s, cur, out) ==
    IF s = <<>> THEN (IF cur = <<>> THEN out ELSE Append(out, cur))
    ELSE IF s[1] = " "
         THEN FieldsAcc(Tail(s), <<>>, IF cur = <<>> THEN out ELSE Append(out, cur))
         ELSE FieldsAcc(Tail(s), Append(cur, s[1]), out)

Fields(s) == FieldsAcc(s, <<>>, <<>>)

\* strings.Split(w, ".")[0]: the text before the first "."
RECURSIVE BeforeDot(_)
BeforeDot(s) ==
    IF s = <<>> \/ s[1] = "." THEN <<>> ELSE <<s[1]>> \o BeforeDot(Tail(s))

\* strconv.Atoi: an optional sign and at least one decimal digit
Atoi(s) ==
    LET signed == s # <<>> /\ s[1] \in {"+", "-"}
        body   == IF signed THEN Tail(s) ELSE s
        ok     == body # <<>> /\ \A i \in 1..Len(body) : body[i] \in Digits
    IN  IF ok
        THEN [ok |-> TRUE,
              val |-> IF signed /\ s[1] = "-" THEN 0 - DigitsVal(body)
                      ELSE DigitsVal(body)]
        ELSE [ok |-> FALSE, val |-> 0]

---------------------------------------------------------------------------
(* Floating point, scaled down to MantBits bits of significand.            *)

RECURSIVE Pow2(_)
Pow2(n) == IF n = 0 THEN 1 ELSE 2 * Pow2(n - 1)

\* round a natural number to MantBits significant bits, ties to even
RECURSIVE RoundAt(_, _)
RoundAt(x, unit) ==
    IF x \div unit < Pow2(MantBits)
    THEN LET q == x \div unit
             r == x % unit
             up == 2 * r > unit \/ (2 * r = unit /\ q % 2 = 1)
         IN  (IF up THEN q + 1 ELSE q) * unit
    ELSE RoundAt(x, 2 * unit)

Round(x) == IF x >= 0 THEN RoundAt(x, 1) ELSE 0 - RoundAt(0 - x, 1)

\* float64 addition
Fadd(a, b) == Round(a + b)

\* strconv.ParseFloat(s, 64), on the texts of the model's alphabet: decimal
\* text without fraction or exponent is a number, and the empty text, text
\* with a space and text with a letter are errors
ParseFloat(s) ==
    LET a == Atoi(s)
    IN  [ok |-> a.ok, val |-> IF a.ok THEN Round(a.val) ELSE 0]

---------------------------------------------------------------------------
(* Program constants.                                                      *)

Years == {2009, 2010, 2011, 2012, 2013, 2014, 2015}

FirstYear == 2009

LastYear == 2015

NumStrata == 33

Zero == [i \in 0..(NumStrata - 1) |-> 0]

\* the six fields getpopw reads from a record
FieldNames == {"insur", "dobyy", "region", "wgt", "emprel", "sex"}

---------------------------------------------------------------------------
(* getpopw: one record.                                                    *)

\* ext: the field's slice of the line, parsed; ok = FALSE is the panic
Ext(ln, f) == ParseFloat(ln[f])

\* the switch on dobyy
AgeBand_byYear(y, dobyy) ==
    CASE dobyy < y - 65      -> "old"
      [] dobyy < y + 3 - 45  -> "1"
      [] dobyy < y + 3 - 18  -> "0"
      [] OTHER               -> "young"

AgeBand(y, dobyy) ==
    CASE dobyy < 2009 - 65 -> "old"
      [] dobyy < 2012 - 45 -> "1"
      [] dobyy < 2012 - 18 -> "0"
      [] OTHER             -> "young"

StratumOf_region4(female, emprel, age, region) ==
    1 + female + 2 * emprel + 4 * age + 4 * region

\* stratum := int(1 + female + 2*emprel + 4*age + 8*region)
StratumOf(female, emprel, age, region) ==
    1 + female + 2 * emprel + 4 * age + 8 * region

\* the recovery of the characteristics from a stratum, as documented
DecFemale(s) == (s - 1) % 2

DecEmprel(s) == ((s - 1) \div 2) % 2

DecAge(s) == ((s - 1) \div 4) % 2

DecRegion(s) == (s - 1) \div 8

Skip(acc) == [st |-> "skip", err |-> "none", acc |-> acc, stratum |-> {}]

DecodePanic(acc) == [st |-> "panic", err |-> "decode", acc |-> acc, stratum |-> {}]

Accumulate_overwrite(acc, s, wgt) ==
    IF s \in DOMAIN acc
    THEN [st |-> "ok", err |-> "none", acc |-> [acc EXCEPT ![s] = wgt],
          stratum |-> {s}]
    ELSE [st |-> "panic", err |-> "index", acc |-> acc, stratum |-> {s}]

\* sampsize[stratum] += wgt, a runtime panic when the index is out of range
Accumulate(acc, s, wgt) ==
    IF s \in DOMAIN acc
    THEN [st |-> "ok", err |-> "none", acc |-> [acc EXCEPT ![s] = Fadd(@, wgt)],
          stratum |-> {s}]
    ELSE [st |-> "panic", err |-> "index", acc |-> acc, stratum |-> {s}]

Body_ignoresDecodeErrors(acc, y, ln) ==
    LET insur == Ext(ln, "insur")
        val(f) == IF Ext(ln, f).ok THEN Ext(ln, f).val ELSE 0
    IN  IF ~insur.ok THEN DecodePanic(acc)
        ELSE IF insur.val # 1 THEN Skip(acc)
        ELSE IF val("sex") # 1 /\ val("sex") # 2 THEN Skip(acc)
        ELSE IF AgeBand(y, val("dobyy")) \in {"old", "young"} THEN Skip(acc)
        ELSE IF val("region") < 0 THEN Skip(acc)
        ELSE IF val("emprel") = 0 - 1 THEN Skip(acc)
        ELSE Accumulate(acc,
                 StratumOf(val("sex") - 1, val("emprel") - 1,
                           IF AgeBand(y, val("dobyy")) = "1" THEN 1 ELSE 0,
                           val("region") - 1),
                 val("wgt"))

\* the body of the loop over the records, for the record ln of year y
Body(acc, y, ln) ==
    LET insur  == Ext(ln, "insur")
        dobyy  == Ext(ln, "dobyy")
        region == Ext(ln, "region")
        wgt    == Ext(ln, "wgt")
        emprel == Ext(ln, "emprel")
        sex    == Ext(ln, "sex")
    IN  IF ~insur.ok THEN DecodePanic(acc)
        ELSE IF insur.val # 1 THEN Skip(acc)
        ELSE IF ~(dobyy.ok /\ region.ok /\ wgt.ok /\ emprel.ok /\ sex.ok)
             THEN DecodePanic(acc)
        ELSE IF sex.val # 1 /\ sex.val # 2 THEN Skip(acc)
        ELSE IF AgeBand(y, dobyy.val) \in {"old", "young"} THEN Skip(acc)
        ELSE IF region.val < 0 THEN Skip(acc)
        ELSE IF emprel.val = 0 - 1 THEN Skip(acc)
        ELSE Accumulate(acc,
                 StratumOf(sex.val - 1, emprel.val - 1,
                           IF AgeBand(y, dobyy.val) = "1" THEN 1 ELSE 0,
                           region.val - 1),
                 wgt.val)

---------------------------------------------------------------------------
(* The alphabet of record slices.                                          *)

Bad == <<"x">>

InsurTexts == {<<"0">>, <<"1">>, <<"2">>, Bad}

SexTexts == {<<"0">>, <<"1">>, <<"2">>, <<"9">>, Bad}

DobyyTexts ==
    {<<"1", "9", "4", "3">>, <<"1", "9", "4", "4">>, <<"1", "9", "6", "6">>,
     <<"1", "9", "6", "7">>, <<"1", "9", "9", "3">>, <<"1", "9", "9", "4">>, Bad}

RegionTexts ==
    {<<"-", "1">>, <<"0">>, <<"1">>, <<"2">>, <<"3">>, <<"4">>, Bad}

EmprelTexts == {<<"-", "1">>, <<"0">>, <<"1">>, <<"2">>, Bad}

WgtTexts == {<<"3">>, <<>>}

Lines ==
    [insur : InsurTexts, dobyy : DobyyTexts, region : RegionTexts,
     wgt : WgtTexts, emprel : EmprelTexts, sex : SexTexts]

NoLine == [f \in FieldNames |-> <<>>]

---------------------------------------------------------------------------
(* SpecRecord: one year's loop body on one record, from a fresh vector.    *)

IdleSchema == doc = <<>> /\ pos = 0 /\ vdef = <<>>

IdleSplit == partA = Zero /\ partB = Zero /\ chunk = 1

IdleMain == dw = <<>> /\ written = FALSE

InitRecord ==
    /\ pc = "scan"
    /\ err = "none"
    /\ year \in Years
    /\ line \in Lines
    /\ sampsize = Zero
    /\ stratum = {}
    /\ nrec = 0
    /\ IdleSchema /\ IdleSplit /\ IdleMain

\* one iteration of the loop over the records: scanner.Scan() delivers rec
\* and the loop body runs on it
RecordStep(rec) ==
    /\ pc = "scan"
    /\ LET r == Body(sampsize, year, rec)
       IN  /\ sampsize' = r.acc
           /\ stratum' = r.stratum
           /\ err' = r.err
           /\ pc' = IF r.st = "panic" THEN "panic" ELSE "scan"
    /\ line' = rec
    /\ nrec' = nrec + 1
    /\ UNCHANGED <<year, dw, written, doc, pos, vdef>>

\* the stream of SpecRecord holds the one record drawn by InitRecord
ScanRecord ==
    /\ nrec = 0
    /\ RecordStep(line)
    /\ UNCHANGED <<partA, partB, chunk>>

NextRecord == ScanRecord

SpecRecord == InitRecord /\ [][NextRecord]_vars

---------------------------------------------------------------------------
(* Properties of the loop body, checked under SpecRecord.                  *)

\* the record in hand has been through the loop body
Processed == nrec = 1

Numeric(f) == Ext(line, f).ok

Num(f) == Ext(line, f).val

AllNumeric == \A f \in FieldNames : Numeric(f)

\* the record was left out: no panic, no index computed, no entry changed
Excluded == pc = "scan" /\ stratum = {} /\ sampsize = Zero

\* the record was added to a stratum whose age bit is a
BinnedWithAge(a) ==
    pc = "scan" /\ \E s \in stratum : s \in 1..32 /\ DecAge(s) = a

\* the record passes every check but the age check, with codes that exist
PassesButAge ==
    /\ AllNumeric
    /\ Num("insur") = 1
    /\ Num("sex") \in {1, 2}
    /\ Num("region") \in 1..4
    /\ Num("emprel") \in 1..2

\* C1 (as claimed): over insurance flag {0,1,2}, sex {0,1,2,9}, the four
\* age bands, region -1..4 and employment relation {-1,0,1}, the record gets
\* a stratum in 1..32 if and only if insurance = 1, sex is 1 or 2, the birth
\* year is in an included band, region >= 1 and employment relation # -1;
\* otherwise it is excluded and no accumulator is indexed.
C1_StratumIffChecksPass ==
    (Processed /\ AllNumeric /\ Num("emprel") \in {0 - 1, 0, 1}) =>
        LET pass == /\ Num("insur") = 1
                    /\ Num("sex") \in {1, 2}
                    /\ Num("dobyy") >= 2009 - 65
                    /\ Num("dobyy") < 2012 - 18
                    /\ Num("region") >= 1
                    /\ Num("emprel") # 0 - 1
        IN  /\ pass <=> (pc = "scan" /\ \E s \in 1..32 : stratum = {s})
            /\ ~pass => Excluded

Combos == (0..1) \X (0..1) \X (0..1) \X (0..3)

\* decoding a stratum and encoding it again gives the stratum
RoundTrip ==
    \A s \in 1..32 :
        StratumOf(DecFemale(s), DecEmprel(s), DecAge(s), DecRegion(s)) = s

EncodingOnto == {StratumOf(t[1], t[2], t[3], t[4]) : t \in Combos} = 1..32

EncodingInjective ==
    \A t, u \in Combos :
        StratumOf(t[1], t[2], t[3], t[4]) = StratumOf(u[1], u[2], u[3], u[4])
            => t = u

\* C2: stratum = 1 + female + 2*emprel + 4*age + 8*region is a bijection
\* from female, emprel, age in {0,1} and region in 0..3 onto 1..32, inverted
\* by the documented decoding: decoding any s in 1..32 and encoding again
\* gives s, and a record binned with characteristics in those ranges is
\* binned in the stratum that decodes to them.
C2_StratumBijection ==
    /\ RoundTrip
    /\ EncodingOnto
    /\ EncodingInjective
    /\ (Processed /\ pc = "scan" /\ PassesButAge) =>
          \A s \in stratum :
              /\ s \in 1..32
              /\ DecFemale(s) = Num("sex") - 1
              /\ DecEmprel(s) = Num("emprel") - 1
              /\ DecRegion(s) = Num("region") - 1

\* C2 witness: a record has been binned in the last stratum, 32
C2_Witness ==
    Processed /\ pc = "scan" /\ PassesButAge /\ stratum = {32} /\ sampsize[32] = 3

C4_BornOnOrBefore1967 ==
    (Processed /\ PassesButAge /\ Num("dobyy") >= 2009 - 65) =>
        /\ Num("dobyy") <= 1967 => BinnedWithAge(1)
        /\ (Num("dobyy") > 1967 /\ Num("dobyy") < 2012 - 18) => BinnedWithAge(0)

\* C5 (as claimed): a record that fails a check (insurance not 1, sex not 1
\* or 2, too old, too young, region below the minimum 1, employment relation
\* -1) leaves all 33 entries unchanged, and entry 0 of the vector stays 0.
C5_ExcludedLeavesVector ==
    Processed =>
        /\ (/\ AllNumeric
            /\ \/ Num("insur") # 1
               \/ Num("sex") \notin {1, 2}
               \/ Num("dobyy") < 2009 - 65
               \/ Num("dobyy") >= 2012 - 18
               \/ Num("region") < 1
               \/ Num("emprel") = 0 - 1) => sampsize = Zero
        /\ sampsize[0] = 0

OtherFields == FieldNames \ {"insur"}

\* C8 (amended): the loop body panics with the decode error, leaving the
\* vector as it was, when the insurance slice is not numeric, or when the
\* insurance flag is 1 and any of the other five slices is not numeric; a
\* record whose insurance flag is a number other than 1 is skipped without
\* its other slices being parsed.
C8_DecodePanic ==
    Processed =>
        /\ (\/ ~Numeric("insur")
            \/ Num("insur") = 1 /\ \E f \in OtherFields : ~Numeric(f))
              => (pc = "panic" /\ err = "decode" /\ sampsize = Zero)
        /\ (Numeric("insur") /\ Num("insur") # 1) => Excluded

\* C8 witness: insurance flag 1 and a sex slice that is no number: panic
C8_Witness ==
    /\ Processed
    /\ Num("insur") = 1
    /\ ~Numeric("sex")
    /\ \A f \in OtherFields \ {"sex"} : Numeric(f)
    /\ pc = "panic" /\ err = "decode"

\* C8 (as claimed): the aggregation fails with the decode error whenever any
\* of the six slices of a record is not numeric, whatever the other fields.
C8_AnyBadSlicePanics ==
    (Processed /\ \E f \in FieldNames : ~Numeric(f)) =>
        (pc = "panic" /\ err = "decode")

---------------------------------------------------------------------------
(* getvinf: the field layout from the SAS programming statements.          *)

\* "INPUT @1"
Marker == <<"I", "N", "P", "U", "T", " ", "@", "1">>

\* ";"
Terminator == <<";">>

\* the five characters cut from the head of every line handed to process
Indent == 5

ParsePanic(vd, e) == [ok |-> FALSE, err |-> e, vdef |-> vd]

\* vdef[vname] = [2]int{ipos, iw}
Put(vd, name, ipos, iw) ==
    [n \in DOMAIN vd \cup {name} |-> IF n = name THEN <<ipos, iw>> ELSE vd[n]]

\* the width token: "$" trimmed, cut at the first "."
WidthText(tok) ==
    LET w == TrimLeft(tok, "$")
    IN  IF Contains(w, <<".">>) THEN BeforeDot(w) ELSE w

Process_oneBased(vd, text) ==
    LET toks == Fields(text)
    IN  IF Len(toks) < 2 THEN ParsePanic(vd, "index")
        ELSE LET ipos == Atoi(TrimLeft(toks[1], "@"))
             IN  IF ~ipos.ok THEN ParsePanic(vd, "parse")
                 ELSE IF Len(toks) < 3 THEN ParsePanic(vd, "index")
                 ELSE LET iw == Atoi(WidthText(toks[3]))
                      IN  IF ~iw.ok THEN ParsePanic(vd, "parse")
                          ELSE [ok |-> TRUE, err |-> "none",
                                vdef |-> Put(vd, toks[2], ipos.val, iw.val)]

\* process: one descriptor into the map; the tokens toks[0], toks[1], toks[2]
\* of the source are toks[1], toks[2], toks[3] here
Process(vd, text) ==
    LET toks == Fields(text)
    IN  IF Len(toks) < 2 THEN ParsePanic(vd, "index")
        ELSE LET ipos == Atoi(TrimLeft(toks[1], "@"))
             IN  IF ~ipos.ok THEN ParsePanic(vd, "parse")
                 ELSE IF Len(toks) < 3 THEN ParsePanic(vd, "index")
                 ELSE LET iw == Atoi(WidthText(toks[3]))
                      IN  IF ~iw.ok THEN ParsePanic(vd, "parse")
                          ELSE [ok |-> TRUE, err |-> "none",
                                vdef |-> Put(vd, toks[2], ipos.val - 1, iw.val)]

\* process(line[5:len(line)]): the slice panics on a line shorter than 5
ProcessLine(vd, ln) ==
    IF Len(ln) < Indent THEN ParsePanic(vd, "index")
    ELSE Process(vd, SliceFrom(ln, Indent))

\* "INPUT @1 A 3": the marker line, with the first descriptor
LMarker ==
    <<"I", "N", "P", "U", "T", " ", "@", "1", " ", "A", " ", "3">>

\* "     @4 B $2": an indented descriptor, character width
LIndentB ==
    <<" ", " ", " ", " ", " ", "@", "4", " ", "B", " ", "$", "2">>

\* "     @6 A 2.1": a second descriptor of A, width with decimals
LIndentA ==
    <<" ", " ", " ", " ", " ", "@", "6", " ", "A", " ", "2", ".", "1">>

\* "     @10 FOO $5": an indented descriptor
LFoo ==
    <<" ", " ", " ", " ", " ", "@", "1", "0", " ", "F", "O", "O", " ", "$", "5">>

\* "@10 FOO $5": the same descriptor starting in the first column
LFlush ==
    <<"@", "1", "0", " ", "F", "O", "O", " ", "$", "5">>

\* ";": the terminator
LTerm ==
    <<";">>

\* "* x": a short comment line
LComment ==
    <<"*", " ", "x">>

\* "     @4 B": a descriptor without width
LTwo ==
    <<" ", " ", " ", " ", " ", "@", "4", " ", "B">>

\* "     @x B 2": a position that is no integer
LBadPos ==
    <<" ", " ", " ", " ", " ", "@", "x", " ", "B", " ", "2">>

\* "     @4 B $": a width that is no integer
LBadWidth ==
    <<" ", " ", " ", " ", " ", "@", "4", " ", "B", " ", "$">>

\* "     @7 C 2 z": a descriptor followed by a fourth token
LFour ==
    <<" ", " ", " ", " ", " ", "@", "7", " ", "C", " ", "2", " ", "z">>

Corpus ==
    {LMarker, LIndentB, LIndentA, LFoo, LFlush, LTerm,
     LComment, LTwo, LBadPos, LBadWidth, LFour}

Docs == UNION {[1..n -> Corpus] : n \in 0..MaxLines}

IdleRecords ==
    /\ year = FirstYear /\ sampsize = Zero /\ stratum = {}
    /\ line = NoLine /\ nrec = 0

InitSchema ==
    /\ pc = "skip"
    /\ err = "none"
    /\ doc \in Docs
    /\ pos = 0
    /\ vdef = <<>>
    /\ IdleRecords /\ IdleSplit /\ IdleMain

NotSchema ==
    <<year, dw, written, sampsize, stratum, line, nrec, partA, partB, chunk>>

\* the line the scanner delivers next
NextLine == doc[pos + 1]

\* process on the delivered line, and where the function goes next
ProcessStep ==
    LET r == ProcessLine(vdef, NextLine)
    IN  /\ vdef' = r.vdef
        /\ err' = r.err
        /\ pc' = IF r.ok THEN "section" ELSE "panic"
        /\ pos' = pos + 1

\* first loop: a line without the marker is skipped
SkipInitial ==
    /\ pc = "skip" /\ pos < Len(doc)
    /\ ~Contains(NextLine, Marker)
    /\ pos' = pos + 1
    /\ UNCHANGED <<pc, err, doc, vdef>>
    /\ UNCHANGED NotSchema

\* first loop: the line with the marker is processed and ends the loop
SectionStart ==
    /\ pc = "skip" /\ pos < Len(doc)
    /\ Contains(NextLine, Marker)
    /\ ProcessStep
    /\ UNCHANGED doc
    /\ UNCHANGED NotSchema

\* first loop ends at the end of the file: the second loop has nothing to
\* read and the map is returned as it is
SkipEOF ==
    /\ pc = "skip" /\ pos = Len(doc)
    /\ pc' = "returned"
    /\ UNCHANGED <<err, doc, pos, vdef>>
    /\ UNCHANGED NotSchema

\* second loop: a line that does not begin with ";" is processed
SectionLine ==
    /\ pc = "section" /\ pos < Len(doc)
    /\ ~HasPrefix(NextLine, Terminator)
    /\ ProcessStep
    /\ UNCHANGED doc
    /\ UNCHANGED NotSchema

\* second loop: a line that begins with ";" ends the section
SectionEnd ==
    /\ pc = "section" /\ pos < Len(doc)
    /\ HasPrefix(NextLine, Terminator)
    /\ pc' = "returned"
    /\ pos' = pos + 1
    /\ UNCHANGED <<err, doc, vdef>>
    /\ UNCHANGED NotSchema

\* second loop ends at the end of the file
SectionEOF ==
    /\ pc = "section" /\ pos = Len(doc)
    /\ pc' = "returned"
    /\ UNCHANGED <<err, doc, pos, vdef>>
    /\ UNCHANGED NotSchema

NextSchema ==
    \/ SkipInitial
    \/ SectionStart
    \/ SkipEOF
    \/ SectionLine
    \/ SectionEnd
    \/ SectionEOF

SpecSchema == InitSchema /\ [][NextSchema]_vars

---------------------------------------------------------------------------
(* Properties of getvinf, checked under SpecSchema.                        *)

AllDigits(s) == s # <<>> /\ \A i \in 1..Len(s) : s[i] \in Digits

\* a position token "@p"
IsPosToken(tok) == Len(tok) >= 2 /\ tok[1] = "@" /\ AllDigits(Tail(tok))

PosValue(tok) == DigitsVal(Tail(tok))

\* the digits at the head of a text
RECURSIVE LeadingDigits(_)
LeadingDigits(s) ==
    IF s = <<>> \/ s[1] \notin Digits THEN <<>>
    ELSE <<s[1]>> \o LeadingDigits(Tail(s))

\* a width token "$w", "w.d" or "w"
IsWidthToken(tok) ==
    LET body == IF tok # <<>> /\ tok[1] = "$" THEN Tail(tok) ELSE tok
        w    == LeadingDigits(body)
        rest == SubSeq(body, Len(w) + 1, Len(body))
    IN  /\ w # <<>>
        /\ rest = <<>> \/ (rest[1] = "." /\ (Len(rest) = 1 \/ AllDigits(Tail(rest))))

WidthValue(tok) ==
    DigitsVal(LeadingDigits(IF tok[1] = "$" THEN Tail(tok) ELSE tok))

\* the three tokens of a field descriptor: "@p", a name and a width
IsDescriptor(toks) ==
    Len(toks) = 3 /\ IsPosToken(toks[1]) /\ IsWidthToken(toks[3])

\* the index of the marker line of the document, 0 when it has none
MarkerIdx ==
    IF \E i \in 1..Len(doc) : Contains(doc[i], Marker)
    THEN CHOOSE i \in 1..Len(doc) :
             /\ Contains(doc[i], Marker)
             /\ \A j \in 1..(i - 1) : ~Contains(doc[j], Marker)
    ELSE 0

\* the index of the terminator line, Len(doc) + 1 when there is none
TermIdx ==
    IF \E i \in (MarkerIdx + 1)..Len(doc) : HasPrefix(doc[i], Terminator)
    THEN CHOOSE i \in (MarkerIdx + 1)..Len(doc) :
             /\ HasPrefix(doc[i], Terminator)
             /\ \A j \in (MarkerIdx + 1)..(i - 1) : ~HasPrefix(doc[j], Terminator)
    ELSE Len(doc) + 1

\* the lines from the marker line up to, not including, the terminator line
Section == IF MarkerIdx = 0 THEN {} ELSE MarkerIdx..(TermIdx - 1)

\* the lines of the section the scanner has delivered
Delivered == {i \in Section : i <= pos}

\* the tokens of line i after its first five characters
TokensCut(i) == Fields(SliceFrom(doc[i], Indent))

\* the tokens of line i as it stands, after "INPUT" on the marker line
TokensWhole(i) ==
    IF i = MarkerIdx THEN Fields(SliceFrom(doc[i], Indent)) ELSE Fields(doc[i])

\* C7 (as claimed): getvinf does not return a map when the document has no
\* marker line, nor when a line of the section does not yield three tokens
\* or has a position or width that is no integer.
C7_BadSchemaFails ==
    pc = "returned" =>
        /\ MarkerIdx # 0
        /\ \A i \in Section :
              /\ Len(doc[i]) >= Indent
              /\ Len(TokensCut(i)) = 3
              /\ Atoi(TrimLeft(TokensCut(i)[1], "@")).ok
              /\ Atoi(WidthText(TokensCut(i)[3])).ok

\* C10 (amended): when getvinf returns, every line from the marker line up
\* to the terminator line whose text after its first five characters is the
\* three tokens "@p", name, width has given name -> (p-1, w), unless a later
\* line of the section has the same name; every name of the map comes from a
\* line of the section; and getvinf panics only on a line of the section
\* that is not such a descriptor.
C10_DescriptorsAfterIndent ==
    /\ pc = "returned" =>
          /\ \A i \in Section :
                LET toks == TokensCut(i)
                IN  IsDescriptor(toks) =>
                      /\ toks[2] \in DOMAIN vdef
                      /\ (\A j \in Section : j > i => TokensCut(j)[2] # toks[2])
                            => vdef[toks[2]] = <<PosValue(toks[1]) - 1,
                                                 WidthValue(toks[3])>>
          /\ \A n \in DOMAIN vdef :
                \E i \in Section : Len(TokensCut(i)) >= 2 /\ TokensCut(i)[2] = n
    /\ pc = "panic" =>
          /\ pos \in Section
          /\ ~IsDescriptor(TokensCut(pos))

\* C10 witness: "INPUT @1 A 3", "     @6 A 2.1", "     @10 FOO $5" has been
\* read to its end: A -> (5, 2), the later descriptor, and FOO -> (9, 5)
C10_Witness ==
    /\ pc = "returned"
    /\ doc = <<LMarker, LIndentA, LFoo>>
    /\ DOMAIN vdef = {<<"A">>, <<"F", "O", "O">>}
    /\ vdef[<<"A">>] = <<5, 2>>
    /\ vdef[<<"F", "O", "O">>] = <<9, 5>>

\* C10 (as claimed): every line from the marker line up to the terminator
\* line that consists of the three tokens "@p", name, width gives the entry
\* name -> (p-1, w), a later descriptor overwriting an earlier one; so does
\* the line "@10 FOO $5".
C10_DescriptorLines ==
    \A i \in Delivered :
        LET toks == TokensWhole(i)
        IN  (/\ IsDescriptor(toks)
             /\ \A j \in Delivered : j > i => TokensWhole(j)[2] # toks[2])
              => /\ toks[2] \in DOMAIN vdef
                 /\ vdef[toks[2]] = <<PosValue(toks[1]) - 1, WidthValue(toks[3])>>

---------------------------------------------------------------------------
(* SpecSplit: one record stream aggregated three times from fresh vectors: *)
(* whole (sampsize), its first chunk (partA) and its second chunk (partB). *)

\* the records of the streams: included and excluded records, a record that
\* cannot be decoded, region 0, and weights 1 and 2048 = 2^11
SplitLines ==
    [insur : {<<"1">>, <<"2">>},
     dobyy : {<<"1", "9", "6", "6">>, <<"1", "9", "6", "7">>},
     region : {<<"0">>, <<"1">>},
     wgt : {<<"1">>, <<"2", "0", "4", "8">>, Bad},
     emprel : {<<"1">>},
     sex : {<<"1">>, <<"2">>}]

FreshPart == [acc |-> Zero, st |-> "run"]

\* the loop body of a chunk's own aggregation
PartStep(p, rec) ==
    LET r == Body(p.acc, year, rec)
    IN  [acc |-> r.acc, st |-> IF r.st = "panic" THEN "panic" ELSE "run"]

InitSplit ==
    /\ pc = "scan"
    /\ err = "none"
    /\ year = FirstYear
    /\ sampsize = Zero
    /\ stratum = {}
    /\ line = NoLine
    /\ nrec = 0
    /\ partA = FreshPart /\ partB = FreshPart /\ chunk = 1
    /\ IdleSchema /\ IdleMain

\* the next record of the stream goes through the whole aggregation and
\* through the aggregation of the chunk it lies in
SplitRecord ==
    /\ nrec < MaxRecs
    /\ \E rec \in SplitLines :
          /\ RecordStep(rec)
          /\ partA' = IF chunk = 1 THEN PartStep(partA, rec) ELSE partA
          /\ partB' = IF chunk = 2 THEN PartStep(partB, rec) ELSE partB
    /\ UNCHANGED chunk

\* the stream is cut here: the records that follow are the second chunk
SplitHere ==
    /\ pc = "scan" /\ chunk = 1
    /\ chunk' = 2
    /\ UNCHANGED <<pc, err, year, dw, written, sampsize, stratum, line, nrec,
                   doc, pos, vdef, partA, partB>>

NextSplit == SplitRecord \/ SplitHere

SpecSplit == InitSplit /\ [][NextSplit]_vars

Strata == 0..(NumStrata - 1)

\* C6 (amended): the aggregation of the whole stream panics exactly when
\* the aggregation of one of the two chunks does; otherwise, in every
\* stratum where the two chunk totals add up to no more than 2^MantBits (so
\* that no addition rounded), adding the chunk vectors gives the vector of
\* the whole stream.
C6_ChunksAddUpWhenExact ==
    /\ pc = "panic" <=> (partA.st = "panic" \/ partB.st = "panic")
    /\ pc = "scan" =>
          \A i \in Strata :
              partA.acc[i] + partB.acc[i] <= Pow2(MantBits)
                  => Fadd(partA.acc[i], partB.acc[i]) = sampsize[i]

\* C6 witness: a stratum holds weight from both chunks and their sum
C6_Witness ==
    /\ pc = "scan" /\ chunk = 2
    /\ \E i \in 1..32 :
          /\ partA.acc[i] = 1 /\ partB.acc[i] = 1
          /\ sampsize[i] = 2

\* C6 (as claimed): for every stream and every cut of it in two chunks,
\* adding the two chunk vectors element-wise gives the vector of the whole
\* stream.
C6_ChunksAddUp ==
    pc = "scan" =>
        \A i \in Strata : Fadd(partA.acc[i], partB.acc[i]) = sampsize[i]

---------------------------------------------------------------------------
(* Spec: main, the loop over the years and the output file.  getvinf is    *)
(* here one step that returns or panics (SpecSchema has its lines), and a  *)
(* record is the six slices the returned layout cuts from it.              *)

RunLines == SplitLines

Init ==
    /\ pc = "call"
    /\ err = "none"
    /\ year = FirstYear
    /\ dw = <<>>
    /\ written = FALSE
    /\ sampsize = Zero
    /\ stratum = {}
    /\ line = NoLine
    /\ nrec = 0
    /\ IdleSchema /\ IdleSplit

NotMain == <<doc, pos, vdef, partA, partB, chunk>>

\* dw[y] = ss
Store(d, y, ss) == [z \in DOMAIN d \cup {y} |-> IF z = y THEN ss ELSE d[z]]

GetvinfReturns_storesEarly ==
    /\ pc = "call"
    /\ pc' = "open"
    /\ sampsize' = Zero
    /\ dw' = Store(dw, year, Zero)
    /\ UNCHANGED <<err, year, written, stratum, line, nrec>>
    /\ UNCHANGED NotMain

\* getpopw(y): getvinf returns the layout and the vector is made
GetvinfReturns ==
    /\ pc = "call"
    /\ pc' = "open"
    /\ sampsize' = Zero
    /\ UNCHANGED <<err, year, dw, written, stratum, line, nrec>>
    /\ UNCHANGED NotMain

\* getpopw(y): getvinf panics (the file cannot be opened or read, or a line
\* of the section cannot be processed)
GetvinfPanics ==
    /\ pc = "call"
    /\ pc' = "panic"
    /\ err' = "schema"
    /\ UNCHANGED <<year, dw, written, sampsize, stratum, line, nrec>>
    /\ UNCHANGED NotMain

\* the data file is opened and the gzip reader made
OpenData ==
    /\ pc = "open"
    /\ pc' = "scan"
    /\ UNCHANGED <<err, year, dw, written, sampsize, stratum, line, nrec>>
    /\ UNCHANGED NotMain

\* gzip.NewReader fails
OpenFails ==
    /\ pc = "open"
    /\ pc' = "panic"
    /\ err' = "io"
    /\ UNCHANGED <<year, dw, written, sampsize, stratum, line, nrec>>
    /\ UNCHANGED NotMain

\* one record of the year's file
MainRecord ==
    /\ nrec < MaxRunRecs
    /\ \E rec \in RunLines : RecordStep(rec)
    /\ UNCHANGED <<partA, partB, chunk>>

\* the scanner stopped on an error
ScanFails ==
    /\ pc = "scan"
    /\ pc' = "panic"
    /\ err' = "io"
    /\ UNCHANGED <<year, dw, written, sampsize, stratum, line, nrec>>
    /\ UNCHANGED NotMain

\* the file is at its end: getpopw returns the vector, main stores it and
\* goes to the next year, or leaves the loop after the last
ReturnYear ==
    /\ pc = "scan"
    /\ dw' = Store(dw, year, sampsize)
    /\ year' = year + 1
    /\ pc' = IF year = LastYear THEN "create" ELSE "call"
    /\ UNCHANGED <<err, written, sampsize, stratum, line, nrec>>
    /\ UNCHANGED NotMain

\* meps_totals.csv is created, the header and the 33 rows are written
WriteTable ==
    /\ pc = "create"
    /\ written' = TRUE
    /\ pc' = "done"
    /\ UNCHANGED <<err, year, dw, sampsize, stratum, line, nrec>>
    /\ UNCHANGED NotMain

\* a row cannot be written: the file exists, the run panics
WriteFails ==
    /\ pc = "create"
    /\ written' = TRUE
    /\ pc' = "panic"
    /\ err' = "io"
    /\ UNCHANGED <<year, dw, sampsize, stratum, line, nrec>>
    /\ UNCHANGED NotMain

\* os.Create fails
CreateFails ==
    /\ pc = "create"
    /\ pc' = "panic"
    /\ err' = "io"
    /\ UNCHANGED <<year, dw, written, sampsize, stratum, line, nrec>>
    /\ UNCHANGED NotMain

Next ==
    \/ GetvinfReturns
    \/ GetvinfPanics
    \/ OpenData
    \/ OpenFails
    \/ MainRecord
    \/ ScanFails
    \/ ReturnYear
    \/ WriteTable
    \/ WriteFails
    \/ CreateFails

Spec == Init /\ [][Next]_vars

\* the years whose vector is in dw
Stored == DOMAIN dw

\* C9: a year's vector is stored only by the step on which that year's
\* aggregation returns, after its schema extraction and all its records went
\* through without panic, and it is the vector then accumulated; the stored
\* years are the years before the one in hand; if a year fails, the run ends
\* with that year not stored and no output written; output is written only
\* once every year is stored.
C9_StoredOnlyAfterSuccess ==
    /\ [](/\ Stored = {y \in Years : y < year}
          /\ (pc = "panic" /\ year \in Years) => (year \notin Stored /\ ~written)
          /\ written => Stored = Years)
    /\ [][\A y \in Years :
             (y \in DOMAIN dw' /\ y \notin DOMAIN dw) =>
                 (pc = "scan" /\ y = year /\ dw'[y] = sampsize)]_vars
    /\ [][pc = "panic" => pc' = "panic"]_vars

\* C9 witness: 2009 is stored with a weight in it, and 2010 has failed on a
\* record: 2010 is not stored and nothing is written
C9_Witness ==
    /\ pc = "panic" /\ err = "decode"
    /\ year = 2010
    /\ Stored = {2009}
    /\ \E i \in 1..32 : dw[2009][i] = 1
    /\ ~written

=============================================================================
